---- MODULE Spec2Model ----
(***************************************************************************)
(* Model of the glucose data bot (glucosedatabot.py, data_utils.py,        *)
(* main.py): the dialogue state machine, its Dialogue Context, the bounded *)
(* Conversation Memory and the read loop that drives them.  The language   *)
(* model is a black box: every awaited call is a suspension point of the   *)
(* turn, and its outcome (a mapping, or an exception) is chosen by the     *)
(* environment.                                                            *)
(***************************************************************************)
EXTENDS Naturals, Sequences, FiniteSets, TLC

VARIABLES
    state,                  \* GlucoseDataBot.state
    context,                \* GlucoseDataBot.context (a dict)
    conversation_history,   \* GlucoseDataBot.conversation_history
    patient_ids,            \* GlucoseDataBot.patient_ids
    data_path,              \* the folders under GlucoseDataBot.data_path
    pc,                     \* where the read loop / the awaited turn stands
    message,                \* the message argument of the suspended handler
    turn,                   \* history variable: what the current turn did
    turn_history            \* history variable: every turn ever appended

vars == <<state, context, conversation_history, patient_ids, data_path, pc,
          message, turn, turn_history>>

(***************************************************************************)
(* Bounds of the model.                                                    *)
(***************************************************************************)
MaxTurns == 3

(***************************************************************************)
(* Python values.  None is written "None" (what an f-string renders it     *)
(* as); a dict is a function whose DOMAIN is its key set.                  *)
(***************************************************************************)
PyNone == "None"

Truthy(v) == v # PyNone /\ v # ""

PyOr(a, b) == IF Truthy(a) THEN a ELSE b

EmptyDict == <<>>

DictGet(d, k, default) == IF k \in DOMAIN d THEN d[k] ELSE default

DictSet(d, k, v) == [x \in (DOMAIN d) \cup {k} |-> IF x = k THEN v ELSE d[x]]

DictDel(d, k) == [x \in (DOMAIN d) \ {k} |-> d[x]]

InList(x, l) == \E i \in 1..Len(l) : l[i] = x

Min(a, b) == IF a < b THEN a ELSE b

(***************************************************************************)
(* str.lower() and the substring test `keyword in text`, character by      *)
(* character over the letters the utterances of the model use.             *)
(***************************************************************************)
LowerChar(c) ==
    CASE c = "A" -> "a" [] c = "C" -> "c" [] c = "D" -> "d" [] c = "E" -> "e"
      [] c = "F" -> "f" [] c = "G" -> "g" [] c = "N" -> "n" [] c = "O" -> "o"
      [] c = "P" -> "p" [] c = "R" -> "r" [] c = "S" -> "s" [] c = "T" -> "t"
      [] c = "V" -> "v" [] c = "X" -> "x"
      [] OTHER -> c

RECURSIVE Lower(_)
Lower(s) ==
    IF Len(s) = 0 THEN ""
    ELSE LowerChar(SubSeq(s, 1, 1)) \o Lower(SubSeq(s, 2, Len(s)))

Contains(keyword, text) ==
    \E i \in 1..(Len(text) + 1) :
        /\ i + Len(keyword) - 1 <= Len(text)
        /\ SubSeq(text, i, i + Len(keyword) - 1) = keyword

ExportKeywords == <<"pdf", "export", "save conversation", "export conversation">>

\* the keyword test without message.lower()
IsExportRequest_case_sensitive(msg) ==
    \E i \in 1..Len(ExportKeywords) : Contains(ExportKeywords[i], msg)

IsExportRequest(msg) ==
    \E i \in 1..Len(ExportKeywords) : Contains(ExportKeywords[i], Lower(msg))

(***************************************************************************)
(* Turns and the Conversation Memory.                                      *)
(***************************************************************************)
max_history_length == 6

Turn(role, content) == [role |-> role, content |-> content]

\* list[-n:] for n > 0
LastN(l, n) == IF Len(l) > n THEN SubSeq(l, Len(l) - n + 1, Len(l)) ELSE l

\* a trim that keeps the first max_history_length entries: history[:n]
update_history_keep_oldest(history, role, content) ==
    LET appended == Append(history, Turn(role, content))
    IN  IF Len(appended) > max_history_length
        THEN SubSeq(appended, 1, max_history_length)
        ELSE appended

update_history(history, role, content) ==
    LET appended == Append(history, Turn(role, content))
    IN  IF Len(appended) > max_history_length
        THEN LastN(appended, max_history_length)
        ELSE appended

(***************************************************************************)
(* The storage the data utilities read: one folder CGMacros-<id> per       *)
(* patient, holding a CSV with rows, a header-only CSV, or no CSV at all.  *)
(* A DataFrame is [frame |-> TRUE, rows |-> n]; the None that              *)
(* get_patient_data returns for a folder without CSV is NoData.            *)
(***************************************************************************)
NoData == [frame |-> FALSE, rows |-> 0]

DataFrame(n) == [frame |-> TRUE, rows |-> n]

CGMacros ==
    [id \in {"001", "002", "003"} |->
        CASE id = "001" -> DataFrame(2)
          [] id = "002" -> NoData
          [] OTHER      -> DataFrame(0)]

DigitRank(c) ==
    CASE c = "0" -> 0 [] c = "1" -> 1 [] c = "2" -> 2 [] c = "3" -> 3
      [] c = "4" -> 4 [] c = "5" -> 5 [] c = "6" -> 6 [] c = "7" -> 7
      [] c = "8" -> 8 [] OTHER -> 9

\* Python's str < str on strings of digits
RECURSIVE StrLess(_, _)
StrLess(a, b) ==
    IF Len(b) = 0 THEN FALSE
    ELSE IF Len(a) = 0 THEN TRUE
    ELSE LET x == DigitRank(SubSeq(a, 1, 1))
             y == DigitRank(SubSeq(b, 1, 1))
         IN  IF x # y THEN x < y
             ELSE StrLess(SubSeq(a, 2, Len(a)), SubSeq(b, 2, Len(b)))

RECURSIVE Sorted(_)
Sorted(S) ==
    IF S = {} THEN <<>>
    ELSE LET m == CHOOSE x \in S : \A y \in S \ {x} : StrLess(x, y)
         IN  <<m>> \o Sorted(S \ {m})

get_available_patient_ids(folders) == Sorted(DOMAIN folders)

get_patient_data(folders, patient_id) == folders[patient_id]

\* The two display actions: [raised, result].  Both index row 0 of the
\* frame (iloc[0], idxmax), which raises on a frame without rows.
generate_glucose_plot(data, patient_id) ==
    IF ~data.frame
    THEN [raised |-> FALSE, result |-> "No data available for this patient."]
    ELSE IF data.rows = 0
    THEN [raised |-> TRUE, result |-> "ValueError"]
    ELSE [raised |-> FALSE,
          result |-> "Generated enhanced plot for patient " \o patient_id
                     \o ". Opening the plot in your default image viewer and saved as patient_"
                     \o patient_id \o "_glucose.png"]

display_raw_data_popup(data, patient_id) ==
    IF ~data.frame
    THEN [raised |-> FALSE, result |-> "No data available for this patient."]
    ELSE IF data.rows = 0
    THEN [raised |-> TRUE, result |-> "IndexError"]
    ELSE [raised |-> FALSE,
          result |-> "Displaying raw data for patient " \o patient_id
                     \o " in your browser."]

\* the file name carries the time of the export, left as <timestamp>
generate_conversation_pdf(history, patient_id) ==
    IF Len(history) = 0 THEN "No conversation history to export."
    ELSE "Conversation exported to conversation_log"
         \o (IF Truthy(patient_id) THEN "_patient_" \o patient_id ELSE "")
         \o "_<timestamp>.pdf and opened in your default PDF viewer."

(***************************************************************************)
(* Prompt templates (prompts.py) and the replies built from them.          *)
(***************************************************************************)
MISSING_PATIENT_PROMPT == "- Please specify which patient's data you'd like to see (e.g., patient 032)"

MISSING_FORMAT_PROMPT == "- Please specify if you want to see the raw data or a visual figure"

\* the two prompts exchanged
create_clarification_message_swapped(missing_info) ==
    "\nTo help you better, I need a bit more information:\n"
    \o (IF InList("format", missing_info) THEN MISSING_PATIENT_PROMPT ELSE "")
    \o "\n"
    \o (IF InList("patient_id", missing_info) THEN MISSING_FORMAT_PROMPT ELSE "")
    \o "\n\nPlease provide the missing details so I can assist you properly.\n"

create_clarification_message(missing_info) ==
    "\nTo help you better, I need a bit more information:\n"
    \o (IF InList("patient_id", missing_info) THEN MISSING_PATIENT_PROMPT ELSE "")
    \o "\n"
    \o (IF InList("format", missing_info) THEN MISSING_FORMAT_PROMPT ELSE "")
    \o "\n\nPlease provide the missing details so I can assist you properly.\n"

RECURSIVE JoinIds(_)
JoinIds(ids) ==
    IF Len(ids) = 0 THEN ""
    ELSE IF Len(ids) = 1 THEN ids[1]
    ELSE ids[1] \o ", " \o JoinIds(Tail(ids))

ShownIds == 10

Digit(d) == SubSeq("0123456789", d + 1, d + 1)

\* str(n) of a natural number
RECURSIVE ToStr(_)
ToStr(n) == IF n < 10 THEN Digit(n) ELSE ToStr(n \div 10) \o Digit(n % 10)

OverflowNote(total) ==
    "\n\nNote: I've shown only the first 10 patient IDs. There are "
    \o ToStr(total) \o " patients available in total."

\* the list of all identifiers, without the [:10] slice
create_patient_not_found_message_unsliced(ids, patient_id) ==
    "\nI'm sorry, but I couldn't find data for patient " \o patient_id
    \o ". \nAvailable patient IDs are: " \o JoinIds(ids)
    \o ".\nPlease specify a valid patient ID.\n"
    \o "\n\nPlease provide another patient ID from the list above. For example: 'Show me data for patient 015'"
    \o (IF Len(ids) > ShownIds THEN OverflowNote(Len(ids)) ELSE "")

create_patient_not_found_message(ids, patient_id) ==
    "\nI'm sorry, but I couldn't find data for patient " \o patient_id
    \o ". \nAvailable patient IDs are: " \o JoinIds(SubSeq(ids, 1, Min(ShownIds, Len(ids))))
    \o ".\nPlease specify a valid patient ID.\n"
    \o "\n\nPlease provide another patient ID from the list above. For example: 'Show me data for patient 015'"
    \o (IF Len(ids) > ShownIds THEN OverflowNote(Len(ids)) ELSE "")

FollowUpOffer == "\n\nI can help you analyze this data further, or I can retrieve data for another patient. What would you like to do?"

UnclearReply == "I'm not sure what you'd like to do. Would you like to analyze this patient's data further, or retrieve data for a different patient?"

NoDataReply == "I don't have any patient data to analyze. Please specify which patient's data you'd like to see."

AnalysisReply == "<analysis>"

(***************************************************************************)
(* The bot as one record, so that the straight-line code between two       *)
(* awaits composes as a function from bot to bot.                          *)
(***************************************************************************)
INITIAL == "INITIAL"

NEEDS_CLARIFICATION == "NEEDS_CLARIFICATION"

DATA_RETRIEVED == "DATA_RETRIEVED"

ANALYZING_DATA == "ANALYZING_DATA"

BotState == {INITIAL, NEEDS_CLARIFICATION, DATA_RETRIEVED, ANALYZING_DATA}

Bot ==
    [state |-> state, context |-> context,
     conversation_history |-> conversation_history,
     pc |-> pc, message |-> message,
     turn |-> turn, turn_history |-> turn_history]

\* History variable of one turn: the utterance, the state and context the
\* turn started from, the handlers it invoked, every value it assigned to
\* self.state, the slots each extraction it received reported non-empty,
\* the collaborators it invoked, and how it ended.
NewTurn(b, m) ==
    [utterance |-> m, start_state |-> b.state, start_context |-> b.context,
     handlers |-> <<>>, states |-> <<>>, reported |-> <<>>, effects |-> <<>>,
     outcome |-> "pending", response |-> ""]

SetState(b, s) == [b EXCEPT !.state = s, !.turn.states = Append(@, s)]

Invoke(b, handler) == [b EXCEPT !.turn.handlers = Append(@, handler)]

Effect(b, e) == [b EXCEPT !.turn.effects = Append(@, e)]

\* the coroutine suspends on a language-model call
Await(b, at, msg) == [b EXCEPT !.pc = at, !.message = msg]

\* the reply is handed to the read loop without being appended
Return_without_append(b, outcome, response) ==
    [b EXCEPT !.turn_history = Append(@, Turn("bot", response)),
              !.pc = "idle", !.message = "",
              !.turn.outcome = outcome, !.turn.response = response]

\* process_message, after the handler returned: the reply is appended
\* and handed to the read loop, which prompts for the next line
Return(b, outcome, response) ==
    [b EXCEPT !.conversation_history = update_history(@, "bot", response),
              !.turn_history = Append(@, Turn("bot", response)),
              !.pc = "idle", !.message = "",
              !.turn.outcome = outcome, !.turn.response = response]

\* an exception leaves the handler, process_message and main: nothing
\* catches it, and the process ends
Raise(b, exc) ==
    [b EXCEPT !.pc = "crashed", !.message = "",
              !.turn.outcome = "raised", !.turn.response = exc]

export_conversation_as_pdf(b) ==
    Return(Effect(b, "export"), "export",
           generate_conversation_pdf(b.conversation_history,
                                     DictGet(b.context, "patient_id", PyNone)))

(***************************************************************************)
(* _handle_initial_message                                                 *)
(***************************************************************************)
\* the completed clarification is dispatched again on the state the turn
\* began in, so that it re-enters _handle_clarification
handle_initial_message_redispatched(b, msg) ==
    LET clarifying == b.turn.start_state = "NEEDS_CLARIFICATION"
        b1 == Invoke(b, IF clarifying THEN "clarification" ELSE "initial")
    IN  IF IsExportRequest(msg) THEN export_conversation_as_pdf(b1)
        ELSE Await(b1, IF clarifying THEN "extract_clarification"
                       ELSE "extract_initial", msg)

handle_initial_message(b, msg) ==
    LET b1 == Invoke(b, "initial")
    IN  IF IsExportRequest(msg) THEN export_conversation_as_pdf(b1)
        ELSE Await(b1, "extract_initial", msg)

\* the operands of `or` swapped: a held value wins over a new one
MergeSlot_held_wins(query_info, ctx, key) ==
    PyOr(DictGet(ctx, "partial_" \o key, PyNone),
         DictGet(query_info, key, PyNone))

\* the held value is not consulted: query_info.get(key) alone
MergeSlot_newest_only(query_info, ctx, key) == DictGet(query_info, key, PyNone)

\* query_info.get(key) or self.context.get("partial_" + key)
MergeSlot(query_info, ctx, key) ==
    PyOr(DictGet(query_info, key, PyNone),
         DictGet(ctx, "partial_" \o key, PyNone))

\* the merged value is never written back to the context
SavePartial_never(ctx, key, value) == ctx

\* if value: self.context["partial_" + key] = value
SavePartial(ctx, key, value) ==
    IF Truthy(value) THEN DictSet(ctx, "partial_" \o key, value) ELSE ctx

MergeSlots(ctx, query_info) ==
    SavePartial(SavePartial(ctx, "patient_id", MergeSlot(query_info, ctx, "patient_id")),
                "format", MergeSlot(query_info, ctx, "format"))

\* the format test inverted: `if format_type: missing.append("format")`
MissingSlots_format_inverted(patient_id, format_type) ==
    (IF ~Truthy(patient_id) THEN <<"patient_id">> ELSE <<>>)
    \o (IF Truthy(format_type) THEN <<"format">> ELSE <<>>)

MissingSlots(patient_id, format_type) ==
    (IF ~Truthy(patient_id) THEN <<"patient_id">> ELSE <<>>)
    \o (IF ~Truthy(format_type) THEN <<"format">> ELSE <<>>)

\* the commit without the two `del self.context["partial_..."]`
commit_and_display_keeps_partials(b, patient_id, format_type) ==
    LET patient_data == get_patient_data(data_path, patient_id)
        ctx == DictSet(DictSet(DictSet(b.context,
                   "patient_id", patient_id), "format", format_type),
                   "patient_data", patient_data)
        b1 == SetState([Effect(b, "get_patient_data") EXCEPT !.context = ctx],
                       DATA_RETRIEVED)
        shown == IF format_type = "figure"
                 THEN generate_glucose_plot(patient_data, patient_id)
                 ELSE display_raw_data_popup(patient_data, patient_id)
        b2 == Effect(b1, IF format_type = "figure" THEN "plot" ELSE "raw")
    IN  IF shown.raised THEN Raise(b2, shown.result)
        ELSE Return(b2, "retrieved", shown.result \o FollowUpOffer)

\* the plot is drawn whatever the format
commit_and_display_plot_always(b, patient_id, format_type) ==
    LET patient_data == get_patient_data(data_path, patient_id)
        ctx == DictSet(DictSet(DictSet(
                   DictDel(DictDel(b.context, "partial_patient_id"), "partial_format"),
                   "patient_id", patient_id), "format", format_type),
                   "patient_data", patient_data)
        b1 == SetState([Effect(b, "get_patient_data") EXCEPT !.context = ctx],
                       DATA_RETRIEVED)
        shown == generate_glucose_plot(patient_data, patient_id)
        b2 == Effect(b1, "plot")
    IN  IF shown.raised THEN Raise(b2, shown.result)
        ELSE Return(b2, "retrieved", shown.result \o FollowUpOffer)

\* lines 111-136: the request is complete and the patient exists
commit_and_display(b, patient_id, format_type) ==
    LET patient_data == get_patient_data(data_path, patient_id)
        ctx == DictSet(DictSet(DictSet(
                   DictDel(DictDel(b.context, "partial_patient_id"), "partial_format"),
                   "patient_id", patient_id), "format", format_type),
                   "patient_data", patient_data)
        b1 == SetState([Effect(b, "get_patient_data") EXCEPT !.context = ctx],
                       DATA_RETRIEVED)
        shown == IF format_type = "figure"
                 THEN generate_glucose_plot(patient_data, patient_id)
                 ELSE display_raw_data_popup(patient_data, patient_id)
        b2 == Effect(b1, IF format_type = "figure" THEN "plot" ELSE "raw")
    IN  IF shown.raised THEN Raise(b2, shown.result)
        ELSE Return(b2, "retrieved", shown.result \o FollowUpOffer)

resume_initial_message(b, query_info) ==
    LET patient_id == MergeSlot(query_info, b.context, "patient_id")
        format_type == MergeSlot(query_info, b.context, "format")
        missing == MissingSlots(patient_id, format_type)
        b1 == [b EXCEPT !.context = MergeSlots(b.context, query_info)]
    IN  IF Len(missing) > 0
        THEN Return(SetState([b1 EXCEPT !.context =
                                  DictSet(@, "missing_info", missing)],
                             NEEDS_CLARIFICATION),
                    "clarification", create_clarification_message(missing))
        ELSE IF ~InList(patient_id, patient_ids)
        THEN Return(b1, "not_found",
                    create_patient_not_found_message(patient_ids, patient_id))
        ELSE commit_and_display(b1, patient_id, format_type)

(***************************************************************************)
(* _handle_clarification                                                   *)
(***************************************************************************)
handle_clarification(b, msg) ==
    LET b1 == Invoke(b, "clarification")
    IN  IF IsExportRequest(msg) THEN export_conversation_as_pdf(b1)
        ELSE Await(b1, "extract_clarification", msg)

\* the format test inverted: `"format" in missing and format_type`
StillMissing_format_inverted(missing, patient_id, format_type) ==
    (IF InList("patient_id", missing) /\ ~Truthy(patient_id)
     THEN <<"patient_id">> ELSE <<>>)
    \o (IF InList("format", missing) /\ Truthy(format_type)
        THEN <<"format">> ELSE <<>>)

\* a patient id still missing demands the format again as well
StillMissing_redemands_format(missing, patient_id, format_type) ==
    IF InList("patient_id", missing) /\ ~Truthy(patient_id)
    THEN <<"patient_id", "format">>
    ELSE IF InList("format", missing) /\ ~Truthy(format_type)
    THEN <<"format">> ELSE <<>>

StillMissing(missing, patient_id, format_type) ==
    (IF InList("patient_id", missing) /\ ~Truthy(patient_id)
     THEN <<"patient_id">> ELSE <<>>)
    \o (IF InList("format", missing) /\ ~Truthy(format_type)
        THEN <<"format">> ELSE <<>>)

complete_query(format_type, patient_id) ==
    "Get " \o format_type \o " data for patient " \o patient_id

\* the reduced list is not stored: missing_info keeps the list it held
resume_clarification_keeps_missing_info(b, query_info) ==
    LET missing == DictGet(b.context, "missing_info", <<>>)
        patient_id == MergeSlot(query_info, b.context, "patient_id")
        format_type == MergeSlot(query_info, b.context, "format")
        still_missing == StillMissing(missing, patient_id, format_type)
        b1 == [b EXCEPT !.context = MergeSlots(b.context, query_info)]
    IN  IF Len(still_missing) > 0
        THEN Return(b1, "clarification", create_clarification_message(still_missing))
        ELSE handle_initial_message(SetState(b1, INITIAL),
                                    complete_query(format_type, patient_id))

resume_clarification(b, query_info) ==
    LET missing == DictGet(b.context, "missing_info", <<>>)
        patient_id == MergeSlot(query_info, b.context, "patient_id")
        format_type == MergeSlot(query_info, b.context, "format")
        still_missing == StillMissing(missing, patient_id, format_type)
        b1 == [b EXCEPT !.context = MergeSlots(b.context, query_info)]
    IN  IF Len(still_missing) > 0
        THEN Return([b1 EXCEPT !.context = DictSet(@, "missing_info", still_missing)],
                    "clarification", create_clarification_message(still_missing))
        ELSE handle_initial_message(SetState(b1, INITIAL),
                                    complete_query(format_type, patient_id))

(***************************************************************************)
(* _handle_analysis                                                        *)
(***************************************************************************)
\* the guard without `patient_data.empty`
handle_analysis_ignores_empty(b, msg) ==
    LET b1 == Invoke(b, "analysis")
        patient_data == DictGet(b.context, "patient_data", NoData)
        patient_id == DictGet(b.context, "patient_id", PyNone)
    IN  IF IsExportRequest(msg) THEN export_conversation_as_pdf(b1)
        ELSE IF ~patient_data.frame \/ ~Truthy(patient_id)
        THEN Return(SetState(b1, INITIAL), "no_data", NoDataReply)
        ELSE Await(b1, "analysis", msg)

handle_analysis(b, msg) ==
    LET b1 == Invoke(b, "analysis")
        patient_data == DictGet(b.context, "patient_data", NoData)
        patient_id == DictGet(b.context, "patient_id", PyNone)
    IN  IF IsExportRequest(msg) THEN export_conversation_as_pdf(b1)
        ELSE IF ~patient_data.frame \/ patient_data.rows = 0 \/ ~Truthy(patient_id)
        THEN Return(SetState(b1, INITIAL), "no_data", NoDataReply)
        ELSE Await(b1, "analysis", msg)

\* the return of the analysis without `self.state = BotState.DATA_RETRIEVED`
resume_analysis_stays_analyzing(b, analysis) ==
    Return(b, "analysis", analysis)

resume_analysis(b, analysis) ==
    Return(SetState(b, DATA_RETRIEVED), "analysis", analysis)

(***************************************************************************)
(* _handle_data_retrieved                                                  *)
(***************************************************************************)
\* ANALYZING_DATA assigned before the classification is awaited
handle_data_retrieved_optimistic(b, msg) ==
    LET b1 == Invoke(b, "data_retrieved")
    IN  IF IsExportRequest(msg) THEN export_conversation_as_pdf(b1)
        ELSE Await(SetState(b1, ANALYZING_DATA), "intention", msg)

handle_data_retrieved(b, msg) ==
    LET b1 == Invoke(b, "data_retrieved")
    IN  IF IsExportRequest(msg) THEN export_conversation_as_pdf(b1)
        ELSE Await(b1, "intention", msg)

\* only the patient is dropped: the format and the partial slots survive
clear_context_patient_only(ctx) == DictDel(DictDel(ctx, "patient_id"), "patient_data")

\* self.context.clear()
clear_context(ctx) == EmptyDict

\* the else branch taken as a request for another patient
resume_data_retrieved_defaults_to_retrieve_new(b, intention) ==
    IF "intention" \notin DOMAIN intention THEN Raise(b, "KeyError")
    ELSE IF intention["intention"] = "analyze_current"
    THEN handle_analysis(SetState(b, ANALYZING_DATA), b.message)
    ELSE Await([SetState(b, INITIAL) EXCEPT !.context = clear_context(@)],
               "extract_retrieve_new", b.message)

\* the retrieve_new branch without `self.state = BotState.INITIAL`
resume_data_retrieved_stays_retrieved(b, intention) ==
    IF "intention" \notin DOMAIN intention THEN Raise(b, "KeyError")
    ELSE IF intention["intention"] = "analyze_current"
    THEN handle_analysis(SetState(b, ANALYZING_DATA), b.message)
    ELSE IF intention["intention"] = "retrieve_new"
    THEN Await([b EXCEPT !.context = clear_context(@)],
               "extract_retrieve_new", b.message)
    ELSE Return(b, "unclear", UnclearReply)

resume_data_retrieved(b, intention) ==
    IF "intention" \notin DOMAIN intention THEN Raise(b, "KeyError")
    ELSE IF intention["intention"] = "analyze_current"
    THEN handle_analysis(SetState(b, ANALYZING_DATA), b.message)
    ELSE IF intention["intention"] = "retrieve_new"
    THEN Await([SetState(b, INITIAL) EXCEPT !.context = clear_context(@)],
               "extract_retrieve_new", b.message)
    ELSE Return(b, "unclear", UnclearReply)

\* lines 201-207, after the extraction of the retrieve_new branch
resume_retrieve_new(b, query_info) ==
    LET ctx == SavePartial(SavePartial(b.context, "patient_id",
                                       DictGet(query_info, "patient_id", PyNone)),
                           "format", DictGet(query_info, "format", PyNone))
    IN  handle_initial_message([b EXCEPT !.context = ctx], b.message)

(***************************************************************************)
(* process_message                                                         *)
(***************************************************************************)
\* the else branch without `self.state = BotState.INITIAL`
process_message_keeps_unknown_state(b, user_message) ==
    LET b1 == [b EXCEPT !.conversation_history = update_history(@, "user", user_message),
                        !.turn_history = Append(@, Turn("user", user_message)),
                        !.turn = NewTurn(b, user_message)]
    IN  CASE b1.state = INITIAL -> handle_initial_message(b1, user_message)
          [] b1.state = NEEDS_CLARIFICATION -> handle_clarification(b1, user_message)
          [] b1.state = DATA_RETRIEVED -> handle_data_retrieved(b1, user_message)
          [] b1.state = ANALYZING_DATA -> handle_analysis(b1, user_message)
          [] OTHER -> handle_initial_message(b1, user_message)

process_message(b, user_message) ==
    LET b1 == [b EXCEPT !.conversation_history = update_history(@, "user", user_message),
                        !.turn_history = Append(@, Turn("user", user_message)),
                        !.turn = NewTurn(b, user_message)]
    IN  CASE b1.state = INITIAL -> handle_initial_message(b1, user_message)
          [] b1.state = NEEDS_CLARIFICATION -> handle_clarification(b1, user_message)
          [] b1.state = DATA_RETRIEVED -> handle_data_retrieved(b1, user_message)
          [] b1.state = ANALYZING_DATA -> handle_analysis(b1, user_message)
          [] OTHER -> handle_initial_message(SetState(b1, INITIAL), user_message)

(***************************************************************************)
(* What the environment supplies: the lines the user types and the         *)
(* results of the language-model calls.                                    *)
(***************************************************************************)
Utterances == {"hello", "as PDF"}

Absent == "<absent>"

PatientIdAnswers == {Absent, "", "001", "002", "003", "999"}

FormatAnswers == {Absent, "", "raw", "figure"}

\* the parsed JSON object of an extraction: a key may be missing
QueryInfo(p, f) ==
    [k \in ({"patient_id" : x \in {p} \ {Absent}} \cup {"format" : x \in {f} \ {Absent}})
        |-> IF k = "patient_id" THEN p ELSE f]

ExtractResults == {QueryInfo(p, f) : p \in PatientIdAnswers, f \in FormatAnswers}

IntentionResults ==
    {[explanation |-> "..."]}
    \cup {[explanation |-> "...", intention |-> i] :
            i \in {"analyze_current", "retrieve_new", "", "other"}}

\* how an awaited language-model call fails: the API call raises, or
\* json.loads raises on the text it returned
LLMFailures == {"APIError", "JSONDecodeError"}

Awaiting == {"extract_initial", "extract_clarification", "extract_retrieve_new",
             "intention", "analysis"}

TurnsStarted == Cardinality({i \in 1..Len(turn_history) : turn_history[i].role = "user"})

(***************************************************************************)
(* The state machine.                                                      *)
(***************************************************************************)
Init ==
    /\ state = INITIAL
    /\ context = EmptyDict
    /\ conversation_history = <<>>
    /\ data_path = CGMacros
    /\ patient_ids = get_available_patient_ids(data_path)
    /\ pc = "idle"
    /\ message = ""
    /\ turn = [NewTurn([state |-> INITIAL, context |-> EmptyDict], "")
                 EXCEPT !.outcome = "none"]
    /\ turn_history = <<>>

Become(b) ==
    /\ state' = b.state
    /\ context' = b.context
    /\ conversation_history' = b.conversation_history
    /\ pc' = b.pc
    /\ message' = b.message
    /\ turn' = b.turn
    /\ turn_history' = b.turn_history
    /\ UNCHANGED <<patient_ids, data_path>>

\* main: a line is read and handed to process_message, which runs up to
\* the first await of the handler, or to its return
ProcessMessage(m) ==
    /\ pc = "idle"
    /\ Become(process_message(Bot, m))

Reported(query_info) == {k \in DOMAIN query_info : Truthy(query_info[k])}

\* _extract_patient_and_format returns query_info to the handler awaiting it
ExtractReturns(query_info) ==
    /\ pc \in {"extract_initial", "extract_clarification", "extract_retrieve_new"}
    /\ LET b == [Bot EXCEPT !.turn.reported = Append(@, Reported(query_info))]
       IN  Become(CASE pc = "extract_initial" -> resume_initial_message(b, query_info)
                    [] pc = "extract_clarification" -> resume_clarification(b, query_info)
                    [] OTHER -> resume_retrieve_new(b, query_info))

\* _analyze_intention returns to _handle_data_retrieved
IntentionReturns(intention) ==
    /\ pc = "intention"
    /\ Become(resume_data_retrieved(Bot, intention))

\* _analyze_glucose_data returns to _handle_analysis
AnalysisReturns(analysis) ==
    /\ pc = "analysis"
    /\ Become(resume_analysis(Bot, analysis))

\* the awaited openai_async_wrapper call raises; json.loads only runs on
\* the calls made with output="json", which the analysis is not
LLMRaises(exc) ==
    /\ pc \in Awaiting
    /\ exc = "JSONDecodeError" => pc # "analysis"
    /\ Become(Raise(Bot, exc))

\* main's read loop takes the next line, one of `utterances`, for as long
\* as fewer than `bound` turns were started
UserTurn(bound, utterances) ==
    /\ TurnsStarted < bound
    /\ \E m \in utterances : ProcessMessage(m)

\* the pending language-model call ends, with one of `extracts` when it
\* is an extraction
LLMStep(extracts) ==
    \/ \E q \in extracts : ExtractReturns(q)
    \/ \E i \in IntentionResults : IntentionReturns(i)
    \/ AnalysisReturns(AnalysisReply)
    \/ \E e \in LLMFailures : LLMRaises(e)

Next == UserTurn(MaxTurns, Utterances) \/ LLMStep(ExtractResults)

Spec == Init /\ [][Next]_vars

(***************************************************************************)
(* Longer conversations over fewer extraction results, for the properties  *)
(* of the Conversation Memory, which only overflows in the fourth turn.    *)
(***************************************************************************)
MaxMemoryTurns == 5

MemoryExtractResults ==
    {QueryInfo("001", "figure"), QueryInfo("999", Absent), QueryInfo(Absent, "")}

NextMemory ==
    UserTurn(MaxMemoryTurns, Utterances) \/ LLMStep(MemoryExtractResults)

SpecMemory == Init /\ [][NextMemory]_vars

(***************************************************************************)
(* One handler call on a bot whose state and context fields hold any of    *)
(* the values below, for the properties of a handler that do not depend on *)
(* how the bot got there.                                                  *)
(***************************************************************************)
MaxProbeTurns == 1

Committed(patient_id, format_type) ==
    [k \in {"patient_id", "format", "patient_data"} |->
        CASE k = "patient_id" -> patient_id
          [] k = "format" -> format_type
          [] OTHER -> get_patient_data(CGMacros, patient_id)]

StartContexts ==
    {EmptyDict,
     DictSet(DictSet(EmptyDict, "partial_format", "raw"), "missing_info", <<"patient_id">>),
     DictSet(DictSet(EmptyDict, "partial_patient_id", "999"), "partial_format", "figure"),
     DictSet(EmptyDict, "missing_info", <<"patient_id", "format">>),
     Committed("001", "figure"),
     Committed("002", "raw"),
     Committed("003", "raw"),
     DictSet(EmptyDict, "patient_data", DataFrame(2))}

\* a value of self.state that is none of the four members of BotState
UnknownState == "UNKNOWN"

InitAnyState ==
    /\ state \in BotState \cup {UnknownState}
    /\ context \in StartContexts
    /\ conversation_history = <<>>
    /\ data_path = CGMacros
    /\ patient_ids = get_available_patient_ids(data_path)
    /\ pc = "idle"
    /\ message = ""
    /\ turn = [NewTurn([state |-> state, context |-> context], "")
                 EXCEPT !.outcome = "none"]
    /\ turn_history = <<>>

\* the extractor is free to answer with a format that is neither "raw"
\* nor "figure"
ProbeExtractResults ==
    {QueryInfo(p, f) : p \in PatientIdAnswers, f \in FormatAnswers \cup {"pdf"}}

NextAnyState == UserTurn(MaxProbeTurns, Utterances) \/ LLMStep(ProbeExtractResults)

SpecAnyState == InitAnyState /\ [][NextAnyState]_vars

(***************************************************************************)
(* The claims.                                                             *)
(***************************************************************************)
(***************************************************************************)
(* Sessions over storages of different sizes, for the properties of the    *)
(* Patient Catalog: the folders CGMacros-<lo> .. CGMacros-<hi> with        *)
(* three-digit identifiers.                                                *)
(***************************************************************************)
MaxCatalog == 12

MaxCatalogTurns == 2

FolderId(i) == "0" \o Digit(i \div 10) \o Digit(i % 10)

FolderData(id) ==
    IF id \in DOMAIN CGMacros THEN CGMacros[id] ELSE DataFrame(2)

Storages ==
    {[id \in {FolderId(i) : i \in lo..hi} |-> FolderData(id)] :
        lo \in {1, 3}, hi \in 0..MaxCatalog}

CatalogExtractResults ==
    {QueryInfo("999", "raw"), QueryInfo("012", "figure"), QueryInfo("001", "raw")}

InitCatalog ==
    /\ state = INITIAL
    /\ context = EmptyDict
    /\ conversation_history = <<>>
    /\ data_path \in Storages
    /\ patient_ids = get_available_patient_ids(data_path)
    /\ pc = "idle"
    /\ message = ""
    /\ turn = [NewTurn([state |-> INITIAL, context |-> EmptyDict], "")
                 EXCEPT !.outcome = "none"]
    /\ turn_history = <<>>

NextCatalog ==
    UserTurn(MaxCatalogTurns, {"hello"}) \/ LLMStep(CatalogExtractResults)

SpecCatalog == InitCatalog /\ [][NextCatalog]_vars

(***************************************************************************)
(* state_machine.py: the StateMachine class, which keeps a state of its    *)
(* own enumeration and a context dict.  Its current_state and context are  *)
(* held in the variables state and context; turn records the last call:    *)
(* the state and context before it and the keyword arguments it was given. *)
(***************************************************************************)
(***************************************************************************)
(* Conversations of a fresh bot in which the extraction may return a       *)
(* format that is itself an export keyword.                                *)
(***************************************************************************)
MaxKeywordTurns == 2

KeywordExtractResults ==
    {QueryInfo(p, f) : p \in {Absent, "001", "999"}, f \in {Absent, "raw", "pdf"}}

NextKeyword ==
    UserTurn(MaxKeywordTurns, Utterances) \/ LLMStep(KeywordExtractResults)

SpecKeyword == Init /\ [][NextKeyword]_vars

CLARIFICATION_NEEDED == "CLARIFICATION_NEEDED"

PATIENT_NOT_FOUND == "PATIENT_NOT_FOUND"

RETRIEVING_NEW == "RETRIEVING_NEW"

MachineStates ==
    {INITIAL, CLARIFICATION_NEEDED, PATIENT_NOT_FOUND, DATA_RETRIEVED,
     ANALYZING_DATA, RETRIEVING_NEW}

\* dict.update
DictUpdate(d, u) ==
    [k \in (DOMAIN d) \cup (DOMAIN u) |-> IF k \in DOMAIN u THEN u[k] ELSE d[k]]

RECURSIVE DictDelAll(_, _)
DictDelAll(d, keys) ==
    IF Len(keys) = 0 THEN d
    ELSE DictDelAll(IF keys[1] \in DOMAIN d THEN DictDel(d, keys[1]) ELSE d,
                    Tail(keys))

Machine == [current_state |-> state, context |-> context]

\* the keys are removed first and the keyword arguments merged after
transition_to_clears_before_update(machine, new_state, kwargs) ==
    LET previous_state == machine.current_state
        cleared == IF /\ new_state = INITIAL
                      /\ previous_state \notin {CLARIFICATION_NEEDED, RETRIEVING_NEW}
                   THEN DictDelAll(machine.context,
                                   <<"patient_id", "format", "patient_data",
                                     "partial_patient_id", "partial_format">>)
                   ELSE machine.context
    IN  [current_state |-> new_state, context |-> DictUpdate(cleared, kwargs)]

transition_to(machine, new_state, kwargs) ==
    LET previous_state == machine.current_state
        updated == DictUpdate(machine.context, kwargs)
    IN  [current_state |-> new_state,
         context |-> IF /\ new_state = INITIAL
                        /\ previous_state \notin {CLARIFICATION_NEEDED, RETRIEVING_NEW}
                     THEN DictDelAll(updated,
                                     <<"patient_id", "format", "patient_data",
                                       "partial_patient_id", "partial_format">>)
                     ELSE updated]

set_context(machine, key, value) ==
    [machine EXCEPT !.context = DictSet(@, key, value)]

clear_partial_info(machine) ==
    [machine EXCEPT !.context =
        DictDelAll(@, <<"partial_patient_id", "partial_format", "missing_info">>)]

\* the keyword arguments the transitions of the model are called with
TransitionArgs ==
    {EmptyDict,
     Committed("001", "figure"),
     DictSet(EmptyDict, "patient_id", "002"),
     DictSet(EmptyDict, "partial_patient_id", "999"),
     DictSet(DictSet(EmptyDict, "partial_format", "raw"), "missing_info", <<"patient_id">>),
     DictSet(EmptyDict, "missing_info", <<"patient_id", "format">>)}

MachineCall(name, kwargs) ==
    [call |-> name, previous_state |-> state, previous_context |-> context,
     kwargs |-> kwargs]

InitMachine ==
    /\ state = INITIAL
    /\ context = EmptyDict
    /\ conversation_history = <<>>
    /\ data_path = CGMacros
    /\ patient_ids = get_available_patient_ids(data_path)
    /\ pc = "idle"
    /\ message = ""
    /\ turn = [call |-> "__init__", previous_state |-> INITIAL,
               previous_context |-> EmptyDict, kwargs |-> EmptyDict]
    /\ turn_history = <<>>

MachineBecomes(machine) ==
    /\ state' = machine.current_state
    /\ context' = machine.context
    /\ UNCHANGED <<conversation_history, patient_ids, data_path, pc, message,
                   turn_history>>

TransitionTo(new_state, kwargs) ==
    /\ MachineBecomes(transition_to(Machine, new_state, kwargs))
    /\ turn' = MachineCall("transition_to", kwargs)

SetContext(key, value) ==
    /\ MachineBecomes(set_context(Machine, key, value))
    /\ turn' = MachineCall("set_context", DictSet(EmptyDict, key, value))

ClearPartialInfo ==
    /\ MachineBecomes(clear_partial_info(Machine))
    /\ turn' = MachineCall("clear_partial_info", EmptyDict)

NextMachine ==
    \/ \E new_state \in MachineStates, kwargs \in TransitionArgs :
            TransitionTo(new_state, kwargs)
    \/ SetContext("partial_format", "figure")
    \/ ClearPartialInfo

SpecMachine == InitMachine /\ [][NextMachine]_vars

Slots == {"patient_id", "format"}

\* the step is the return of the extraction q to the handler awaiting it;
\* the first conjunct follows from the second and only spares evaluating
\* the handler for the results whose reported slots differ from the step's
Extracts(q) ==
    /\ pc \in {"extract_initial", "extract_clarification", "extract_retrieve_new"}
    /\ turn'.reported = Append(turn.reported, Reported(q))
    /\ ExtractReturns(q)

Partial(ctx, slot) == DictGet(ctx, "partial_" \o slot, PyNone)

\* C1: after any sequence of appends the Conversation Memory holds at most
\* max_history_length entries, and they are the most recent
\* min(n, max_history_length) of the n turns appended so far, in order,
\* whatever their roles.
C1_MemoryIsNewestSuffix ==
    LET n == Len(turn_history)
        k == Min(n, max_history_length)
    IN  /\ Len(conversation_history) <= max_history_length
        /\ Len(conversation_history) = k
        /\ \A i \in 1..k : conversation_history[i] = turn_history[n - k + i]

\* C1 witness: the memory overflowed on a user turn, so the oldest entry
\* was evicted alone and the retained window starts with a bot turn.
C1_Witness ==
    /\ Len(turn_history) = max_history_length + 1
    /\ Len(conversation_history) = max_history_length
    /\ conversation_history[1].role = "bot"
    /\ conversation_history[max_history_length].role = "user"

\* The utterances of the model that contain an export keyword in some
\* letter case, and those that contain none.
ExportUtterances == {"as PDF"}

\* C2: from every state, a turn whose utterance contains an export keyword
\* performs the export of the Conversation Memory (the utterance included)
\* with the current patient id, replies with its result, and leaves the
\* bot state and the whole Dialogue Context as they were.
C2_ExportLeavesStateAndContext ==
    [][(pc = "idle" /\ state \in BotState /\ turn_history' # turn_history
            /\ turn'.utterance \in ExportUtterances)
        => /\ state' = state
           /\ context' = context
           /\ pc' = "idle"
           /\ turn'.effects = <<"export">>
           /\ turn'.states = <<>>
           /\ turn'.response =
                generate_conversation_pdf(
                    Append(conversation_history, Turn("user", turn'.utterance)),
                    DictGet(context, "patient_id", PyNone))
           /\ conversation_history'[Len(conversation_history')] =
                Turn("bot", turn'.response)]_vars

\* C2 witness: an export turn taken in ANALYZING_DATA with a committed
\* request in the context, both still in place after the turn.
C2_Witness ==
    /\ pc = "idle"
    /\ turn.outcome = "export"
    /\ turn.start_state = ANALYZING_DATA
    /\ state = ANALYZING_DATA
    /\ "patient_data" \in DOMAIN context
    /\ context = turn.start_context

Range(seq) == {seq[i] : i \in 1..Len(seq)}

\* the step loads the dataset of a complete request, that is, commits it
Commits == "get_patient_data" \in (Range(turn'.effects) \ Range(turn.effects))

\* C3: in every INITIAL or NEEDS_CLARIFICATION merge, each slot ends up with
\* the newly extracted value when that is non-empty and with the value held
\* before otherwise (held in partial_<slot>, or committed as <slot> when the
\* request completes); merging the same extraction a second time changes
\* nothing; and no step changes a partial_<slot> value except a merge of a
\* non-empty extracted value, a commit, or a wipe of the whole context.
C3_SlotMergeIsSticky ==
    [][/\ \A q \in ExtractResults :
            (pc \in {"extract_initial", "extract_clarification"} /\ Extracts(q))
            => /\ \A slot \in Slots :
                    LET held == Partial(context, slot)
                        new == DictGet(q, slot, PyNone)
                        merged == IF new # PyNone /\ new # "" THEN new ELSE held
                    IN  IF Commits
                        THEN Partial(context', slot) = PyNone /\ context'[slot] = merged
                        ELSE Partial(context', slot) = merged
               /\ MergeSlots(MergeSlots(context, q), q) = MergeSlots(context, q)
               /\ ~Commits => MergeSlots(context', q) = context'
       /\ \A slot \in Slots :
            Partial(context', slot) # Partial(context, slot)
            => \/ context' = EmptyDict
               \/ Commits
               \/ \E q \in ExtractResults :
                    /\ slot \in DOMAIN q /\ q[slot] \notin {"", PyNone}
                    /\ Partial(context', slot) = q[slot]
                    /\ Extracts(q)]_vars

\* C3 witness: a clarification turn whose extraction reported no slot ended
\* with the format held before it still held.
C3_Witness ==
    /\ pc = "idle"
    /\ turn.start_state = NEEDS_CLARIFICATION
    /\ turn.reported = <<{}>>
    /\ Partial(turn.start_context, "format") = "raw"
    /\ Partial(context, "format") = "raw"
    /\ Partial(context, "patient_id") = PyNone

\* the value a merge must give a slot: the extracted one when non-empty,
\* else the one held
MergedValue(q, ctx, slot) ==
    LET new == DictGet(q, slot, PyNone)
    IN  IF new # PyNone /\ new # "" THEN new ELSE Partial(ctx, slot)

Catalog == Range(patient_ids)

\* the first extraction of a turn that began in INITIAL returns q
InitialTurnExtracts(q) ==
    /\ pc = "extract_initial"
    /\ turn.start_state = INITIAL
    /\ turn.handlers = <<"initial">>
    /\ Extracts(q)

\* C4: when the extraction of a turn begun in INITIAL yields a patient id of
\* the catalog and a format, that turn commits the request (patient_id,
\* format and the patient's dataset in the context) and sets the state to
\* DATA_RETRIEVED, which is the only value the turn ever assigns to the
\* state; the turn then replies, unless the display of a dataset without
\* rows raises.
C4_CompleteRequestRetrievesAtOnce ==
    [][\A q \in ExtractResults :
        (/\ InitialTurnExtracts(q)
         /\ Slots \subseteq DOMAIN q
         /\ q["patient_id"] \in Catalog
         /\ q["format"] \notin {"", PyNone})
        => /\ state' = DATA_RETRIEVED
           /\ turn'.states = <<DATA_RETRIEVED>>
           /\ {"patient_id", "format", "patient_data"} \subseteq DOMAIN context'
           /\ context'["patient_id"] = q["patient_id"]
           /\ context'["format"] = q["format"]
           /\ context'["patient_data"] = CGMacros[q["patient_id"]]
           /\ \/ pc' = "idle" /\ turn'.outcome = "retrieved"
              \/ pc' = "crashed" /\ CGMacros[q["patient_id"]] = DataFrame(0)]_vars

\* C4 witness: a turn begun in INITIAL whose one extraction reported both
\* slots ended with the request committed, in DATA_RETRIEVED.
C4_Witness ==
    /\ pc = "idle"
    /\ turn.start_state = INITIAL
    /\ turn.handlers = <<"initial">>
    /\ turn.reported = <<{"patient_id", "format"}>>
    /\ turn.outcome = "retrieved"
    /\ state = DATA_RETRIEVED
    /\ context["patient_id"] = "001"

\* the follow-up of C5: in NEEDS_CLARIFICATION with both slots recorded
\* missing, the extraction yields the format and no patient id
FollowUpYieldsOnlyFormat(q) ==
    /\ pc = "extract_clarification"
    /\ turn.start_state = NEEDS_CLARIFICATION
    /\ DictGet(context, "missing_info", <<>>) = <<"patient_id", "format">>
    /\ Extracts(q)
    /\ Reported(q) = {"format"}

FollowUpLeavesPatientMissing ==
    /\ state' = NEEDS_CLARIFICATION
    /\ pc' = "idle"
    /\ DictGet(context', "missing_info", <<>>) = <<"patient_id">>

\* C5 as stated: from INITIAL, an extraction yielding neither slot leads to
\* NEEDS_CLARIFICATION with both slots recorded missing, and a follow-up
\* yielding only the format leaves patient_id alone recorded missing, still
\* in NEEDS_CLARIFICATION.
C5_AsStated ==
    [][\A q \in ExtractResults :
        /\ (InitialTurnExtracts(q) /\ Reported(q) = {})
           => /\ state' = NEEDS_CLARIFICATION
              /\ DictGet(context', "missing_info", <<>>) = <<"patient_id", "format">>
        /\ FollowUpYieldsOnlyFormat(q) => FollowUpLeavesPatientMissing]_vars

\* C5, amended: from INITIAL with no partial slot held in the context (as
\* in a fresh session), an extraction yielding neither slot leads to
\* NEEDS_CLARIFICATION with both slots recorded missing; a follow-up
\* yielding only the format leaves patient_id alone recorded missing, still
\* in NEEDS_CLARIFICATION.
C5_NeitherSlotThenFormat ==
    [][\A q \in ExtractResults :
        /\ (/\ InitialTurnExtracts(q) /\ Reported(q) = {}
            /\ \A slot \in Slots : Partial(context, slot) = PyNone)
           => /\ state' = NEEDS_CLARIFICATION
              /\ pc' = "idle"
              /\ DictGet(context', "missing_info", <<>>) = <<"patient_id", "format">>
        /\ FollowUpYieldsOnlyFormat(q) => FollowUpLeavesPatientMissing]_vars

\* C5 witness: a follow-up turn that began with both slots recorded missing
\* and whose extraction reported only the format ended in
\* NEEDS_CLARIFICATION with patient_id alone recorded missing.
C5_Witness ==
    /\ pc = "idle"
    /\ turn.start_state = NEEDS_CLARIFICATION
    /\ turn.start_context["missing_info"] = <<"patient_id", "format">>
    /\ turn.reported = <<{"format"}>>
    /\ state = NEEDS_CLARIFICATION
    /\ context["missing_info"] = <<"patient_id">>

\* C6: whenever INITIAL handling finds both merged slots non-empty and the
\* patient id outside the catalog, the turn ends there with the not-found
\* reply and the state INITIAL it had; the step assigns no state, loads and
\* displays nothing, leaves patient_id, format, patient_data and
\* missing_info of the context as they were, and both partial slots hold
\* the merged values (a held value is replaced only by a newly extracted
\* non-empty one).
C6_UnknownPatientStaysInitial ==
    [][\A q \in ExtractResults :
        (/\ pc = "extract_initial"
         /\ \A slot \in Slots : MergedValue(q, context, slot) # PyNone
         /\ MergedValue(q, context, "patient_id") \notin Catalog
         /\ Extracts(q))
        => /\ state = INITIAL /\ state' = INITIAL
           /\ pc' = "idle"
           /\ turn'.outcome = "not_found"
           /\ turn'.states = turn.states
           /\ turn'.effects = turn.effects
           /\ \A k \in {"patient_id", "format", "patient_data", "missing_info"} :
                /\ k \in DOMAIN context' <=> k \in DOMAIN context
                /\ k \in DOMAIN context => context'[k] = context[k]
           /\ \A slot \in Slots :
                Partial(context', slot) = MergedValue(q, context, slot)]_vars

\* C6 witness: a turn that began with the format held ended with the
\* not-found outcome in INITIAL, the format and the unknown id both held
\* and nothing committed.
C6_Witness ==
    /\ pc = "idle"
    /\ turn.outcome = "not_found"
    /\ state = INITIAL
    /\ Partial(turn.start_context, "format") = "raw"
    /\ Partial(context, "format") = "raw"
    /\ Partial(context, "patient_id") = "999"
    /\ "patient_id" \notin DOMAIN context

RequestKeys == {"patient_id", "format", "patient_data"}

\* the extraction of the INITIAL handling re-entered by a retrieve_new turn
RetrieveNewExtracts(q) ==
    /\ pc = "extract_initial"
    /\ turn.start_state = DATA_RETRIEVED
    /\ turn.handlers = <<"data_retrieved", "initial">>
    /\ Extracts(q)

\* C7 as stated: a retrieve_new turn whose utterance names (in both of its
\* extractions) a catalog patient other than the current one ends in
\* DATA_RETRIEVED for that patient.
C7_AsStated ==
    [][\A q \in ExtractResults :
        (/\ RetrieveNewExtracts(q)
         /\ "patient_id" \in DOMAIN q
         /\ q["patient_id"] \in Catalog
         /\ q["patient_id"] # DictGet(turn.start_context, "patient_id", PyNone)
         /\ Partial(context, "patient_id") = q["patient_id"])
        => /\ state' = DATA_RETRIEVED
           /\ DictGet(context', "patient_id", PyNone) = q["patient_id"]]_vars

\* C7, amended: a turn classified retrieve_new first empties the whole
\* context and sets the state to INITIAL; its first extraction leaves only
\* the partial slots it reported; and when the utterance yields a catalog
\* patient id and a format, the turn ends in DATA_RETRIEVED with exactly the
\* new request in the context, while without a format it ends in
\* NEEDS_CLARIFICATION with only the partial slots and missing_info.
C7_RetrieveNewReplacesContext ==
    [][/\ \A i \in IntentionResults :
            (/\ pc = "intention" /\ IntentionReturns(i)
             /\ DictGet(i, "intention", "") = "retrieve_new")
            => /\ context' = EmptyDict
               /\ state' = INITIAL
               /\ pc' = "extract_retrieve_new"
       /\ \A q \in ExtractResults :
            (pc = "extract_retrieve_new" /\ Extracts(q))
            => /\ DOMAIN context' = {"partial_" \o slot : slot \in Reported(q)}
               /\ \A slot \in Reported(q) : Partial(context', slot) = q[slot]
               /\ state' = INITIAL
       /\ \A q \in ExtractResults :
            RetrieveNewExtracts(q)
            => LET p == MergedValue(q, context, "patient_id")
                   f == MergedValue(q, context, "format")
               IN  /\ DOMAIN context \subseteq {"partial_patient_id", "partial_format"}
                   /\ (p \in Catalog /\ f # PyNone)
                      => /\ state' = DATA_RETRIEVED
                         /\ DOMAIN context' = RequestKeys
                         /\ context'["patient_id"] = p
                         /\ context'["format"] = f
                         /\ context'["patient_data"] = CGMacros[p]
                   /\ (p = PyNone \/ f = PyNone)
                      => /\ state' = NEEDS_CLARIFICATION
                         /\ DOMAIN context' \cap RequestKeys = {}
                         /\ Partial(context', "patient_id") = p
                         /\ Partial(context', "format") = f]_vars

\* C7 witness: a retrieve_new turn begun with patient 001 committed ended
\* in DATA_RETRIEVED with exactly the request for patient 002.
C7_Witness ==
    /\ pc = "idle"
    /\ turn.start_state = DATA_RETRIEVED
    /\ turn.handlers = <<"data_retrieved", "initial">>
    /\ DictGet(turn.start_context, "patient_id", PyNone) = "001"
    /\ state = DATA_RETRIEVED
    /\ DOMAIN context = RequestKeys
    /\ context["patient_id"] = "002"

\* what the handler awaiting an extraction does with the result q
AfterExtraction(q) ==
    CASE pc = "extract_initial" -> resume_initial_message(Bot, q)
      [] pc = "extract_clarification" -> resume_clarification(Bot, q)
      [] OTHER -> resume_retrieve_new(Bot, q)

\* C8: when the extraction call of an INITIAL or NEEDS_CLARIFICATION turn
\* fails, the turn goes on as with an extraction without slots: state and
\* context are those of the still-missing path, the bot reply is appended
\* to the memory, and the read loop takes the next line.
C8_ExtractionFailureIsEmptyExtraction ==
    [][\A e \in LLMFailures :
        (pc \in {"extract_initial", "extract_clarification"} /\ LLMRaises(e))
        => /\ pc' = "idle"
           /\ state' = AfterExtraction(EmptyDict).state
           /\ context' = AfterExtraction(EmptyDict).context
           /\ conversation_history' = AfterExtraction(EmptyDict).conversation_history
           /\ conversation_history'[Len(conversation_history')].role = "bot"]_vars

\* an extraction result with its missing keys added as empty strings
WithEmptyFields(q) == [slot \in Slots |-> DictGet(q, slot, "")]

\* C9: a structured result missing expected keys is handled as one with
\* those fields empty: an extraction lacking patient_id or format acts as
\* the same extraction with "" there, and an intention result lacking
\* intention gets the disambiguation reply, the state staying
\* DATA_RETRIEVED and the context unchanged.
C9_MissingKeysAreEmptyFields ==
    [][/\ \A q \in ExtractResults :
            ExtractReturns(q) => ExtractReturns(WithEmptyFields(q))
       /\ \A i \in IntentionResults :
            (pc = "intention" /\ IntentionReturns(i) /\ "intention" \notin DOMAIN i)
            => /\ pc' = "idle"
               /\ state' = DATA_RETRIEVED
               /\ context' = context
               /\ turn'.response = UnclearReply]_vars

HandlerOf(s) ==
    CASE s = NEEDS_CLARIFICATION -> "clarification"
      [] s = DATA_RETRIEVED -> "data_retrieved"
      [] s = ANALYZING_DATA -> "analysis"
      [] OTHER -> "initial"

\* C10: a turn invokes at most two state handlers, the handler of the state
\* it began in and at most one re-entry, into INITIAL handling (from
\* clarification or data-retrieved handling) or into ANALYZING_DATA handling
\* (from data-retrieved handling); the INITIAL handling re-entered after a
\* completed clarification is never followed by another handler; and a turn
\* receives at most two extractions.
C10_BoundedHandlerReentry ==
    LET h == turn.handlers
    IN  /\ Len(h) <= 2
        /\ Len(h) >= 1 => h[1] = HandlerOf(turn.start_state)
        /\ Len(h) = 2 => h \in {<<"clarification", "initial">>,
                                <<"data_retrieved", "initial">>,
                                <<"data_retrieved", "analysis">>}
        /\ Len(turn.reported) <= 2
        /\ pc = "extract_clarification" => h = <<"clarification">>
        /\ pc = "idle" => turn.outcome # "pending"

\* C10 witness: a clarification that completed re-entered INITIAL handling
\* once, and the turn ended with the request retrieved.
C10_Witness ==
    /\ pc = "idle"
    /\ turn.handlers = <<"clarification", "initial">>
    /\ Len(turn.reported) = 2
    /\ turn.outcome = "retrieved"

DataActions == {"get_patient_data", "plot", "raw"}

\* C11: a step of a turn invokes the data lookup or a display action only
\* as the return of an extraction to INITIAL handling whose merged patient
\* id is in the catalog and whose merged format is non-empty, and then it
\* loads the dataset and invokes exactly one display action after it: the
\* plot when the merged format is "figure", the raw-data display for any
\* other format.  A turn that ended in NEEDS_CLARIFICATION or with the
\* not-found reply invoked none of them.
C11_DataActionsOnlyForResolvedRequest ==
    /\ [][(turn'.effects # turn.effects
                /\ Range(turn'.effects) \cap DataActions # {})
           => \E q \in ProbeExtractResults :
                LET patient_id == MergedValue(q, context, "patient_id")
                    format_type == MergedValue(q, context, "format")
                IN  /\ pc = "extract_initial"
                    /\ patient_id \in Catalog
                    /\ format_type \notin {"", PyNone}
                    /\ turn'.effects =
                         turn.effects \o
                         <<"get_patient_data",
                           IF format_type = "figure" THEN "plot" ELSE "raw">>
                    /\ Range(turn.effects) \cap DataActions = {}
                    /\ Extracts(q)]_vars
    /\ []((pc = "idle" /\ (state = NEEDS_CLARIFICATION \/ turn.outcome = "not_found"))
          => Range(turn.effects) \cap DataActions = {})

\* C11 witness: a request for a format that is neither "raw" nor "figure"
\* was committed, the dataset loaded and the raw-data display alone invoked.
C11_Witness ==
    /\ pc = "idle"
    /\ turn.outcome = "retrieved"
    /\ turn.effects = <<"get_patient_data", "raw">>
    /\ context["format"] = "pdf"
    /\ context["patient_id"] \in Catalog

\* both slots are resolved: committed, or held as partial values
BothSlotsResolved ==
    \/ Slots \subseteq DOMAIN context
    \/ \A slot \in Slots : Partial(context, slot) \notin {"", PyNone}

\* C12: after every turn that leaves both slots resolved (a request was
\* committed, or a clarification episode completed), the Dialogue Context
\* holds no missing_info entry that names a slot.
C12_MissingInfoClearedOnResolve ==
    (pc = "idle" /\ turn.outcome \in {"retrieved", "not_found"} /\ BothSlotsResolved)
    => DictGet(context, "missing_info", <<>>) = <<>>

\* C13: a step that commits a request leaves the context without the keys
\* partial_patient_id and partial_format, and in every state in which the
\* bot state is DATA_RETRIEVED both keys are absent.  (While the extraction
\* of a 'retrieve_new' turn is pending the state is already INITIAL.)
C13_NoPartialsWhileDataRetrieved ==
    /\ [][Commits => \A slot \in Slots : ("partial_" \o slot) \notin DOMAIN context']_vars
    /\ [](state = DATA_RETRIEVED
            => \A slot \in Slots : ("partial_" \o slot) \notin DOMAIN context)

\* C13 witness: a request whose slots had been collected over a
\* clarification episode is committed, and the bot has since answered
\* another utterance in DATA_RETRIEVED, with no partial key in the context.
C13_Witness ==
    /\ pc = "idle"
    /\ state = DATA_RETRIEVED
    /\ turn.start_state = DATA_RETRIEVED
    /\ turn.outcome \in {"unclear", "analysis"}
    /\ "missing_info" \in DOMAIN context
    /\ \A slot \in Slots : ("partial_" \o slot) \notin DOMAIN context

\* the position of the first occurrence of keyword in text, 0 when absent
Find(keyword, text) ==
    LET at == {i \in 1..Len(text) :
                 /\ i + Len(keyword) - 1 <= Len(text)
                 /\ SubSeq(text, i, i + Len(keyword) - 1) = keyword}
    IN  IF at = {} THEN 0 ELSE CHOOSE i \in at : \A j \in at : i <= j

\* the text of a reply between the first `before` and the next `after`
Between(before, after, text) ==
    LET from == Find(before, text) + Len(before)
        rest == SubSeq(text, from, Len(text))
    IN  SubSeq(rest, 1, Find(after, rest) - 1)

\* a listing "id, id, ..." of identifiers of three characters, read back
ListedIds(listing) ==
    [i \in 1..((Len(listing) + 2) \div 5) |-> SubSeq(listing, 5 * i - 4, 5 * i - 2)]

\* C14: the Patient Catalog is the sorted list of the stored folders'
\* identifiers, and every not-found reply lists exactly its first
\* min(10, |catalog|) identifiers, in order, so never more than 10; the
\* reply carries the overflow note if and only if the catalog holds more
\* than 10 identifiers, and the note then states how many it holds.
C14_NotFoundListsFirstTen ==
    (pc = "idle" /\ turn.outcome = "not_found")
    => LET n == Len(patient_ids)
           listed == ListedIds(Between("Available patient IDs are: ", ".\n",
                                       turn.response))
       IN  /\ Range(patient_ids) = DOMAIN data_path
           /\ \A i, j \in 1..n : i < j => StrLess(patient_ids[i], patient_ids[j])
           /\ Len(listed) = Min(10, n)
           /\ \A i \in 1..Len(listed) : listed[i] = patient_ids[i]
           /\ Contains("I've shown only the first 10 patient IDs", turn.response)
                <=> n > 10
           /\ n > 10 => Contains("There are " \o ToStr(n) \o " patients available in total",
                                 turn.response)
           /\ n <= 10 => ~Contains("There are ", turn.response)

\* C14 witness: a not-found reply over a catalog of more than 10
\* identifiers, which carries the overflow note.
C14_Witness ==
    /\ pc = "idle"
    /\ turn.outcome = "not_found"
    /\ Len(patient_ids) > 10
    /\ Contains("I've shown only the first 10 patient IDs", turn.response)

\* C15: when an utterance arrives while the stored state is none of the
\* four enumerated states, process_message does not raise: it assigns
\* INITIAL to the state, invokes INITIAL handling and no other handler, and
\* goes on exactly as it does from INITIAL with the same context (the
\* export, or the wait for the extraction of the utterance).
C15_UnknownStateFallsBackToInitial ==
    [][\A m \in Utterances :
        (state \notin BotState /\ ProcessMessage(m))
        => LET fromInitial == process_message([Bot EXCEPT !.state = INITIAL], m)
           IN  /\ state' = INITIAL
               /\ turn'.states = <<INITIAL>>
               /\ turn'.handlers = <<"initial">>
               /\ pc' # "crashed"
               /\ pc' = fromInitial.pc
               /\ context' = fromInitial.context
               /\ conversation_history' = fromInitial.conversation_history
               /\ turn'.response = fromInitial.turn.response]_vars

\* C15 witness: a turn that began in an unknown state was handled by
\* INITIAL handling alone and committed the request it asked for.
C15_Witness ==
    /\ pc = "idle"
    /\ turn.start_state = UnknownState
    /\ turn.handlers = <<"initial">>
    /\ turn.outcome = "retrieved"
    /\ state = DATA_RETRIEVED

\* the slots whose merged value (the newly extracted one, else the one
\* held) is empty
EmptySlots(q, ctx) == {slot \in Slots : MergedValue(q, ctx, slot) \in {"", PyNone}}

\* C16: when an extraction returns to INITIAL handling, the missing slots
\* are exactly those whose merged value is empty.  If there are any, they
\* are stored as missing_info, the state becomes NEEDS_CLARIFICATION, and
\* the reply is the clarification request, which carries the patient
\* prompt if and only if patient_id is missing and the format prompt if and
\* only if format is missing.  If there are none, the step stores no
\* missing_info and does not enter NEEDS_CLARIFICATION.
C16_MissingIsExactlyTheEmptySlots ==
    [][\A q \in ProbeExtractResults :
        (pc = "extract_initial" /\ Extracts(q))
        => LET missing == EmptySlots(q, context)
           IN  IF missing # {}
               THEN /\ "missing_info" \in DOMAIN context'
                    /\ Range(context'["missing_info"]) = missing
                    /\ Len(context'["missing_info"]) = Cardinality(missing)
                    /\ state' = NEEDS_CLARIFICATION
                    /\ pc' = "idle"
                    /\ turn'.outcome = "clarification"
                    /\ Contains(MISSING_PATIENT_PROMPT, turn'.response)
                         <=> "patient_id" \in missing
                    /\ Contains(MISSING_FORMAT_PROMPT, turn'.response)
                         <=> "format" \in missing
                    /\ Contains("I need a bit more information", turn'.response)
               ELSE /\ state' # NEEDS_CLARIFICATION
                    /\ DictGet(context', "missing_info", <<>>)
                         = DictGet(context, "missing_info", <<>>)
                    /\ turn'.outcome # "clarification"]_vars

\* C16 witness: INITIAL handling merged a newly extracted patient id with
\* no format, recorded format alone as missing and asked for it alone.
C16_Witness ==
    /\ pc = "idle"
    /\ turn.handlers = <<"initial">>
    /\ turn.reported = <<{"patient_id"}>>
    /\ state = NEEDS_CLARIFICATION
    /\ context["missing_info"] = <<"format">>
    /\ Contains(MISSING_FORMAT_PROMPT, turn.response)
    /\ ~Contains(MISSING_PATIENT_PROMPT, turn.response)

\* the slots a reply asks for
AskedFor(response) ==
    {slot \in Slots :
        Contains(IF slot = "patient_id" THEN MISSING_PATIENT_PROMPT
                 ELSE MISSING_FORMAT_PROMPT, response)}

\* C17: a turn that began in NEEDS_CLARIFICATION and ends there leaves a
\* missing_info that names only slots the missing_info at its start named,
\* and no reply of a turn that began in NEEDS_CLARIFICATION asks for a slot
\* that the missing_info at its start did not name.
C17_MissingInfoOnlyShrinks ==
    (pc = "idle" /\ turn.start_state = NEEDS_CLARIFICATION)
    => LET before == Range(DictGet(turn.start_context, "missing_info", <<>>))
       IN  /\ state = NEEDS_CLARIFICATION
              => /\ Range(DictGet(context, "missing_info", <<>>)) \subseteq before
                 /\ turn.outcome = "clarification"
                      => AskedFor(turn.response)
                           = Range(DictGet(context, "missing_info", <<>>))
           /\ AskedFor(turn.response) \subseteq before

\* C17 witness: with patient_id alone recorded missing, a clarification
\* turn whose extraction reported no slot at all, the format included,
\* asked for the patient id again and not for the format.
C17_Witness ==
    /\ pc = "idle"
    /\ turn.start_state = NEEDS_CLARIFICATION
    /\ turn.start_context["missing_info"] = <<"patient_id">>
    /\ turn.reported = <<{}>>
    /\ state = NEEDS_CLARIFICATION
    /\ context["missing_info"] = <<"patient_id">>
    /\ AskedFor(turn.response) = {"patient_id"}

\* C18: when the classification returned to DATA_RETRIEVED handling has an
\* intention that is neither 'analyze_current' nor 'retrieve_new', the turn
\* ends at once with the disambiguation reply: the state stays
\* DATA_RETRIEVED, the Dialogue Context is unchanged, no state is assigned,
\* no other handler is invoked, and no extraction or analysis call is made.
C18_UnclearIntentionChangesNothing ==
    [][\A i \in IntentionResults :
        (/\ "intention" \in DOMAIN i
         /\ i["intention"] \notin {"analyze_current", "retrieve_new"}
         /\ IntentionReturns(i))
        => /\ state = DATA_RETRIEVED /\ state' = DATA_RETRIEVED
           /\ context' = context
           /\ pc' = "idle"
           /\ turn'.response = UnclearReply
           /\ turn'.states = <<>>
           /\ turn'.handlers = <<"data_retrieved">>
           /\ turn'.reported = <<>>
           /\ turn'.effects = <<>>
           /\ conversation_history'[Len(conversation_history')]
                = Turn("bot", UnclearReply)]_vars

\* C18 witness: a turn in DATA_RETRIEVED ended with the disambiguation
\* reply, the committed request still in the context.
C18_Witness ==
    /\ pc = "idle"
    /\ turn.outcome = "unclear"
    /\ turn.start_state = DATA_RETRIEVED
    /\ state = DATA_RETRIEVED
    /\ context = turn.start_context
    /\ DictGet(context, "patient_id", PyNone) = "001"

\* the context lacks what an analysis needs: a dataset with rows and a
\* patient id
NothingToAnalyze(ctx) ==
    \/ "patient_data" \notin DOMAIN ctx
    \/ ctx["patient_data"] = NoData
    \/ ctx["patient_data"] = DataFrame(0)
    \/ DictGet(ctx, "patient_id", PyNone) \in {"", PyNone}

\* what ANALYZING_DATA handling does on entry with an utterance that is
\* no export request
AnalysisEntry ==
    IF NothingToAnalyze(context)
    THEN /\ state' = INITIAL
         /\ pc' = "idle"
         /\ turn'.response = NoDataReply
    ELSE /\ pc' = "analysis"
         /\ context' = context

\* C19: ANALYZING_DATA handling, entered from process_message or from
\* DATA_RETRIEVED handling on 'analyze_current', ends the turn in INITIAL
\* with the 'specify a patient' prompt and without a language-model call
\* when the dataset is absent or empty or the patient id is absent, and
\* otherwise awaits the analysis; when the analysis returns, the state
\* becomes DATA_RETRIEVED, the reply is the analysis, and patient_id,
\* format and patient_data of the context are as they were.
C19_AnalysisNeedsDataAndKeepsRequest ==
    [][/\ \A m \in Utterances \ ExportUtterances :
            (state = ANALYZING_DATA /\ ProcessMessage(m)) => AnalysisEntry
       /\ \A i \in IntentionResults :
            (/\ DictGet(i, "intention", PyNone) = "analyze_current"
             /\ turn.utterance \notin ExportUtterances
             /\ IntentionReturns(i)) => AnalysisEntry
       /\ AnalysisReturns(AnalysisReply)
            => /\ state' = DATA_RETRIEVED
               /\ pc' = "idle"
               /\ turn'.response = AnalysisReply
               /\ \A k \in RequestKeys :
                    /\ k \in DOMAIN context' <=> k \in DOMAIN context
                    /\ k \in DOMAIN context => context'[k] = context[k]]_vars

\* C19 witness: an analysis was asked for in DATA_RETRIEVED, obtained and
\* returned, and the committed request is still in the context.
C19_Witness ==
    /\ pc = "idle"
    /\ turn.outcome = "analysis"
    /\ turn.handlers = <<"data_retrieved", "analysis">>
    /\ state = DATA_RETRIEVED
    /\ context = turn.start_context
    /\ context["patient_data"] = DataFrame(2)

\* C20 as stated: whenever a language-model call is pending, the bot state
\* and the Dialogue Context have the values they had when the turn started.
C20_AsStated ==
    pc \in Awaiting => (state = turn.start_state /\ context = turn.start_context)

\* the first language-model call of the turn is pending
FirstCallPending ==
    /\ pc \in Awaiting
    /\ Len(turn.handlers) = 1
    /\ turn.reported = <<>>
    /\ turn.states = <<>>

\* C20: the bot state and the Dialogue Context change only in a step in
\* which a pending language-model call returns, never in the step that
\* takes the utterance and starts the first call, and not when the call
\* raises; so while the first call of a turn is pending both have the
\* values they had when the turn started.  (A later call of the same turn
\* is awaited with the state and the context already changed by the
\* return of the call before it.)
C20_ChangesFollowAReturnedCall ==
    /\ [][/\ (state' # state \/ context' # context) => pc \in Awaiting
          /\ \A e \in LLMFailures :
                LLMRaises(e) => (state' = state /\ context' = context)]_vars
    /\ [](FirstCallPending
            => (state = turn.start_state /\ context = turn.start_context))

\* C20 witness: the analysis call is pending in ANALYZING_DATA, the state
\* assigned when the classification of the same turn returned.
C20_Witness ==
    /\ pc = "analysis"
    /\ turn.start_state = DATA_RETRIEVED
    /\ state = ANALYZING_DATA
    /\ turn.states = <<ANALYZING_DATA>>

\* C21: process_message appends the user utterance before any handling and
\* the bot reply after it, and nothing else.  While a call of the turn is
\* pending the memory ends with the utterance; at every turn boundary the
\* full turn history holds two entries per turn, and the retained memory
\* has even length, alternates user, bot, user, bot, ... starting with a
\* user turn, and ends with the reply of the latest turn.
C21_MemoryAlternatesAtTurnBoundaries ==
    /\ pc \in Awaiting
        => conversation_history[Len(conversation_history)]
             = Turn("user", turn.utterance)
    /\ pc = "idle"
        => /\ Len(turn_history) = 2 * TurnsStarted
           /\ Len(conversation_history) % 2 = 0
           /\ \A i \in 1..Len(conversation_history) :
                conversation_history[i].role
                  = IF i % 2 = 1 THEN "user" ELSE "bot"
           /\ Len(conversation_history) > 0
                => /\ conversation_history[Len(conversation_history)]
                        = Turn("bot", turn.response)
                   /\ conversation_history[Len(conversation_history) - 1]
                        = Turn("user", turn.utterance)

\* C21 witness: after the fourth turn the memory has overflowed and holds
\* the last three exchanges, a user turn first.
C21_Witness ==
    /\ pc = "idle"
    /\ Len(turn_history) = max_history_length + 2
    /\ Len(conversation_history) = max_history_length
    /\ conversation_history[1].role = "user"
    /\ conversation_history[max_history_length] = Turn("bot", turn.response)

\* the reply before the utterance of the current turn was a not-found reply
AfterNotFound ==
    /\ Len(turn_history) >= 3
    /\ turn_history[Len(turn_history) - 1].role = "bot"
    /\ Contains("I couldn't find data for patient",
                turn_history[Len(turn_history) - 1].content)

\* C22: in the turn after a not-found reply, an extraction that yields a
\* patient id of the catalog and no format commits that patient with the
\* format held since the not-found turn: DATA_RETRIEVED is the only state
\* the turn assigns, so NEEDS_CLARIFICATION is never visited, and the turn
\* replies unless the display of a dataset without rows raises.
C22_NotFoundThenPatientAloneCommits ==
    [][\A q \in ExtractResults :
        (/\ pc = "extract_initial"
         /\ Reported(q) = {"patient_id"}
         /\ q["patient_id"] \in Catalog
         /\ turn'.reported = <<{"patient_id"}>>
         /\ AfterNotFound
         /\ InitialTurnExtracts(q))
        => /\ Partial(context, "format") \notin {"", PyNone}
           /\ state' = DATA_RETRIEVED
           /\ turn'.states = <<DATA_RETRIEVED>>
           /\ Slots \subseteq DOMAIN context'
           /\ context'["patient_id"] = q["patient_id"]
           /\ context'["format"] = Partial(context, "format")
           /\ \/ pc' = "idle" /\ turn'.outcome = "retrieved"
              \/ pc' = "crashed" /\ data_path[q["patient_id"]] = DataFrame(0)]_vars

\* C22 witness: the unknown patient 999 was asked for as a figure and not
\* found; the next turn reported patient 001 alone and committed it with
\* the format figure.
C22_Witness ==
    /\ pc = "idle"
    /\ turn.outcome = "retrieved"
    /\ turn.start_state = INITIAL
    /\ turn.reported = <<{"patient_id"}>>
    /\ Partial(turn.start_context, "patient_id") = "999"
    /\ Partial(turn.start_context, "format") = "figure"
    /\ context["patient_id"] = "001"
    /\ context["format"] = "figure"
    /\ turn.effects = <<"get_patient_data", "plot">>

PatientKeys ==
    {"patient_id", "format", "patient_data", "partial_patient_id", "partial_format"}

\* C23: transition_to sets the state to the new state and merges the
\* keyword arguments into the context, a given key replacing the held
\* one.  When the new state is INITIAL and the previous state is neither
\* CLARIFICATION_NEEDED nor RETRIEVING_NEW, it then removes patient_id,
\* format, patient_data, partial_patient_id and partial_format, those just
\* given included; in every other case it removes no key.
C23_TransitionToInitialClearsPatientKeys ==
    [][\A new_state \in MachineStates, kwargs \in TransitionArgs :
        TransitionTo(new_state, kwargs)
        => LET merged == (DOMAIN context) \cup (DOMAIN kwargs)
               clears == /\ new_state = INITIAL
                         /\ state \notin {CLARIFICATION_NEEDED, RETRIEVING_NEW}
           IN  /\ state' = new_state
               /\ DOMAIN context' = IF clears THEN merged \ PatientKeys ELSE merged
               /\ \A k \in DOMAIN context' :
                    context'[k] = IF k \in DOMAIN kwargs THEN kwargs[k] ELSE context[k]]_vars

\* C23 witness: a transition from DATA_RETRIEVED to INITIAL that was given
\* a whole request left none of its keys in the context, while
\* missing_info, held before, is still there.
C23_Witness ==
    /\ turn.call = "transition_to"
    /\ turn.previous_state = DATA_RETRIEVED
    /\ state = INITIAL
    /\ turn.kwargs = Committed("001", "figure")
    /\ "partial_patient_id" \in DOMAIN turn.previous_context
    /\ DOMAIN context = {"missing_info"}

\* the bot has returned its reply and waits for the next line
AtTurnBoundary == pc = "idle"

\* C24: at every turn boundary of a conversation begun by a fresh bot, a
\* bot in DATA_RETRIEVED holds a patient_id that is in the catalog and a
\* non-empty format, and holds neither partial_patient_id nor
\* partial_format.
C24_DataRetrievedHoldsCatalogRequest ==
    (AtTurnBoundary /\ state = DATA_RETRIEVED)
    => /\ "patient_id" \in DOMAIN context
       /\ context["patient_id"] \in Catalog
       /\ "format" \in DOMAIN context
       /\ context["format"] \notin {"", PyNone, Absent}
       /\ "partial_patient_id" \notin DOMAIN context
       /\ "partial_format" \notin DOMAIN context

\* C24 witness: an analysis turn has ended back in DATA_RETRIEVED with the
\* request of patient 001 still committed.
C24_Witness ==
    /\ AtTurnBoundary
    /\ state = DATA_RETRIEVED
    /\ turn.outcome = "analysis"
    /\ turn.states = <<ANALYZING_DATA, DATA_RETRIEVED>>
    /\ DictGet(context, "patient_id", PyNone) = "001"

\* C25: at every turn boundary of a conversation begun by a fresh bot, a
\* bot in NEEDS_CLARIFICATION holds a missing_info that names at least one
\* slot and only slots, and a slot is named exactly when its partial_<slot>
\* key holds no non-empty value.
C25_MissingInfoMatchesEmptyPartials ==
    (AtTurnBoundary /\ state = NEEDS_CLARIFICATION)
    => /\ "missing_info" \in DOMAIN context
       /\ Len(context["missing_info"]) > 0
       /\ Range(context["missing_info"]) \subseteq Slots
       /\ \A slot \in Slots :
            slot \in Range(context["missing_info"])
            <=> Partial(context, slot) \in {"", PyNone}

\* C25 witness: a clarification turn has supplied the patient id and
\* still lacks the format.
C25_Witness ==
    /\ AtTurnBoundary
    /\ state = NEEDS_CLARIFICATION
    /\ turn.start_state = NEEDS_CLARIFICATION
    /\ turn.outcome = "clarification"
    /\ DictGet(turn.start_context, "missing_info", <<>>) = <<"patient_id", "format">>
    /\ DictGet(context, "missing_info", <<>>) = <<"format">>
    /\ Partial(context, "patient_id") = "001"

\* the clarification of the turn found nothing still missing and handed
\* the synthesized request to the INITIAL handling
CompletedClarification == turn.handlers = <<"clarification", "initial">>

\* the patient id the turn merged: held as partial_patient_id until a
\* commit moves it to patient_id
MergedPatientId ==
    IF "partial_patient_id" \in DOMAIN context THEN context["partial_patient_id"]
    ELSE DictGet(context, "patient_id", PyNone)

\* C26: a turn whose clarification found nothing still missing never ends
\* in NEEDS_CLARIFICATION: it ends in DATA_RETRIEVED when the merged
\* patient id is in the catalog and in INITIAL when it is not.
C26_CompletedClarificationRetrievesOrStaysInitial ==
    (AtTurnBoundary /\ CompletedClarification)
    => /\ state # NEEDS_CLARIFICATION
       /\ state = IF MergedPatientId \in Catalog THEN DATA_RETRIEVED ELSE INITIAL

\* C27: at every turn boundary of a conversation begun by a fresh bot, a
\* bot in INITIAL holds none of the keys of a committed request:
\* patient_id, format, patient_data.
C27_InitialHoldsNoCommittedRequest ==
    (AtTurnBoundary /\ state = INITIAL) => DOMAIN context \cap RequestKeys = {}

\* the step makes the state ANALYZING_DATA
EntersAnalyzing == state # ANALYZING_DATA /\ state' = ANALYZING_DATA

\* C28: in a conversation begun by a fresh bot the state is never
\* ANALYZING_DATA at a turn boundary; the state becomes ANALYZING_DATA only
\* when the classification of a turn that began in DATA_RETRIEVED returns
\* 'analyze_current', and whenever the state is ANALYZING_DATA the turn is
\* either awaiting the analysis or has ended in an exception.
C28_AnalyzingOnlyInsideATurn ==
    /\ [](AtTurnBoundary => state # ANALYZING_DATA)
    /\ [](state = ANALYZING_DATA
          => /\ pc \in {"analysis", "crashed"}
             /\ turn.start_state = DATA_RETRIEVED
             /\ turn.handlers = <<"data_retrieved", "analysis">>)
    /\ [][EntersAnalyzing
          => /\ pc = "intention"
             /\ turn.start_state = DATA_RETRIEVED
             /\ \E i \in IntentionResults :
                  /\ DictGet(i, "intention", PyNone) = "analyze_current"
                  /\ IntentionReturns(i)]_vars

\* C28 witness: the turn entered ANALYZING_DATA, found no data to analyse
\* and returned its reply with the state INITIAL.
C28_Witness ==
    /\ AtTurnBoundary
    /\ turn.start_state = DATA_RETRIEVED
    /\ turn.states = <<ANALYZING_DATA, INITIAL>>
    /\ turn.outcome = "no_data"
    /\ state = INITIAL

\* the step performs an export
Exports == "export" \in (Range(turn'.effects) \ Range(turn.effects))

\* C29: a step performs an export only in a turn whose utterance contains
\* an export keyword.
C29_ExportOnlyOnUserKeyword ==
    [][Exports => IsExportRequest(turn'.utterance)]_vars

====
